---- MODULE Spec2Model ----
(***************************************************************************)
(* Model of lib_graphe_python: the image compressor (image_compressor.py) *)
(* and the synthetic metrics generator (data_generator.py).               *)
(*                                                                         *)
(* Python floats are IEEE-754 binary64.  A positive float is modelled as   *)
(* [m |-> <<h, mid, l>>, e |-> e]: a 53-bit significand M held in three    *)
(* 18-bit limbs (2^52 <= M < 2^53) and the value M * 2^e.  Every float     *)
(* operation rounds to nearest, ties to even, as the hardware does.        *)
(***************************************************************************)
EXTENDS Integers, Sequences, FiniteSets, TLC

\* ------------------------------------------------------------------------
\* binary64 arithmetic on positive operands
\* ------------------------------------------------------------------------
LimbBase == 262144

HiddenBit == 65536

RECURSIVE BitLen(_)
BitLen(k) == IF k = 0 THEN 0 ELSE 1 + BitLen(k \div 2)

B3Geq(a, b) ==
    \/ a[1] > b[1]
    \/ a[1] = b[1] /\ a[2] > b[2]
    \/ a[1] = b[1] /\ a[2] = b[2] /\ a[3] >= b[3]

B3Sub(a, b) ==
    LET l  == a[3] - b[3]
        bl == IF l < 0 THEN 1 ELSE 0
        m  == a[2] - b[2] - bl
        bm == IF m < 0 THEN 1 ELSE 0
    IN  <<a[1] - b[1] - bm, m + bm * LimbBase, l + bl * LimbBase>>

\* 2 * a + c for a carry-in c in {0, 1}
B3DoubleAdd(a, c) ==
    LET l == 2 * a[3] + c
        m == 2 * a[2] + (l \div LimbBase)
    IN  <<2 * a[1] + (m \div LimbBase), m % LimbBase, l % LimbBase>>

B3Inc(a) ==
    LET l == a[3] + 1
        m == a[2] + (l \div LimbBase)
    IN  <<a[1] + (m \div LimbBase), m % LimbBase, l % LimbBase>>

\* the significand q (53 bits, truncated) rounded up or not, renormalised
RoundSignificand(q, e, up) ==
    IF ~up THEN [m |-> q, e |-> e]
    ELSE LET q1 == B3Inc(q)
         IN  IF q1[1] = 2 * HiddenBit
             THEN [m |-> <<HiddenBit, 0, 0>>, e |-> e + 1]
             ELSE [m |-> q1, e |-> e]

B4Geq(a, b) ==
    \/ a[1] > b[1]
    \/ a[1] = b[1] /\ B3Geq(<<a[2], a[3], a[4]>>, <<b[2], b[3], b[4]>>)

\* a - b on four limbs, given the three low limbs' difference
B4SubLow(a, b, low) ==
    IF low[1] < 0
    THEN <<a[1] - b[1] - 1, low[1] + LimbBase, low[2], low[3]>>
    ELSE <<a[1] - b[1], low[1], low[2], low[3]>>

B4Sub(a, b) ==
    B4SubLow(a, b, B3Sub(<<a[2], a[3], a[4]>>, <<b[2], b[3], b[4]>>))

\* a * k for a three-limb a and an int 0 <= k < 2^13, as four limbs
B3MulSmall(a, k) ==
    LET l == a[3] * k
        m == a[2] * k + (l \div LimbBase)
        h == a[1] * k + (m \div LimbBase)
    IN  <<h \div LimbBase, h % LimbBase, m % LimbBase, l % LimbBase>>

\* the quotient is produced in digits of 13 bits
DigitBase == 8192

\* r * DigitBase for a three-limb r, as four limbs
ShiftDigit(r) ==
    << r[1] \div 32,
       (r[1] % 32) * DigitBase + (r[2] \div 32),
       (r[2] % 32) * DigitBase + (r[3] \div 32),
       (r[3] % 32) * DigitBase >>

\* a digit q that is not above floor(r / d), from the leading limbs, and
\* what it leaves of r: <<q, r - q * d>>
TrialDigit(r, d) ==
    LET q == (r[1] * LimbBase + r[2]) \div (d[1] + 1)
    IN  <<q, B4Sub(r, B3MulSmall(d, q))>>

\* the digit raised by one where the remainder still holds the divisor
FixDigit(qr, d) ==
    IF B4Geq(qr[2], d) THEN <<qr[1] + 1, B4Sub(qr[2], d)>> ELSE qr

\* the next digit of r / d for three-limb r < d, appended to digits, and the
\* remainder: <<digits, r>>
PushDigit(digits, qr) ==
    <<Append(digits, qr[1]), <<qr[2][2], qr[2][3], qr[2][4]>> >>

DivStep(st, d) ==
    PushDigit(st[1],
        FixDigit(FixDigit(TrialDigit(ShiftDigit(st[2]), d),
                          <<0, d[1], d[2], d[3]>>),
                 <<0, d[1], d[2], d[3]>>))

\* the leading bit and four digits as a 53-bit significand
PackDigits(g) ==
    << HiddenBit + g[1] * 8 + (g[2] \div 1024),
       (g[2] % 1024) * 256 + (g[3] \div 32),
       (g[3] % 32) * DigitBase + g[4] >>

\* round to nearest, ties to even: whether quotient q with remainder r of a
\* division by d rounds up
RoundsUp(q, r2, d) == IF r2 = d THEN q[3] % 2 = 1 ELSE B3Geq(r2, d)

RoundQuotient(q, r, d, e) ==
    RoundSignificand(q, e, RoundsUp(q, B3DoubleAdd(r, 0), d))

RoundDigits(st, d, e) == RoundQuotient(PackDigits(st[1]), st[2], d, e)

\* n / d for three-limb n, d with n / d in [1, 2), correctly rounded,
\* scaled by 2^e
RoundedQuotient(n, d, e) ==
    RoundDigits(
        DivStep(DivStep(DivStep(DivStep(<< <<>>, B3Sub(n, d)>>, d), d), d), d),
        d, e - 52)

\* the int k >= 1 as a float: k = M * 2^(BitLen(k) - 53), exactly
IntToFloat(k) ==
    [m |-> <<k * 2^(17 - BitLen(k)), 0, 0>>, e |-> BitLen(k) - 53]

\* float / float -> float
FloatDiv(x, y) ==
    RoundedQuotient(IF B3Geq(x.m, y.m) THEN x.m ELSE B3DoubleAdd(x.m, 0),
                    y.m,
                    IF B3Geq(x.m, y.m) THEN x.e - y.e ELSE x.e - y.e - 1)

\* int / int -> float  (Python true division of ints below 2^53)
TrueDiv(n, d) == FloatDiv(IntToFloat(n), IntToFloat(d))

\* int / float -> float
IntDivFloat(k, x) == FloatDiv(IntToFloat(k), x)

\* p = <<top, h, m, l>> shifted right by s bits (0 < s < 18), rounded to
\* nearest even, scaled by 2^e
RoundShifted(p, s, e) ==
    LET w    == 2^s
        lift == 2^(18 - s)
        low  == (p[4] \div w) + (p[3] % w) * lift
        gone == p[4] % w
    IN  RoundSignificand(<< (p[2] \div w) + (p[1] % w) * lift,
                            (p[3] \div w) + (p[2] % w) * lift,
                            low >>,
                         e + s,
                         2 * gone > w \/ (2 * gone = w /\ low % 2 = 1))

\* the product p = <<top, h, m, l>> of a significand and an int, as a float
RoundProduct(p, e) ==
    IF p[1] = 0 /\ p[2] < 2 * HiddenBit
    THEN [m |-> <<p[2], p[3], p[4]>>, e |-> e]
    ELSE RoundShifted(p, BitLen(p[1]) + 1, e)

\* int * float -> float, for an int 1 <= k < 2^13
IntMulFloat(k, x) == RoundProduct(B3MulSmall(x.m, k), x.e)

\* float > float
FloatGt(x, y) ==
    \/ x.e > y.e
    \/ x.e = y.e /\ x.m # y.m /\ B3Geq(x.m, y.m)

\* int(float): truncation
FloatToInt(x) ==
    LET t == 0 - x.e
    IN  IF t >= 53 THEN 0
        ELSE IF t >= 36 THEN x.m[1] \div 2^(t - 36)
        ELSE IF t >= 18 THEN x.m[1] * 2^(36 - t) + (x.m[2] \div 2^(t - 18))
        ELSE (x.m[1] * LimbBase + x.m[2]) * 2^(18 - t) + (x.m[3] \div 2^t)

\* ------------------------------------------------------------------------
\* ImageCompressor._calculate_dimensions
\* ------------------------------------------------------------------------
\* a fit that keeps the other side of the box: the result covers the box
FitToBoxCover(src_aspect, target_aspect, target_width, target_height) ==
    IF FloatGt(src_aspect, target_aspect)
    THEN <<FloatToInt(IntMulFloat(target_height, src_aspect)), target_height>>
    ELSE <<target_width, FloatToInt(IntDivFloat(target_width, src_aspect))>>

\* the branch on the two aspect ratios
FitToBox(src_aspect, target_aspect, target_width, target_height) ==
    IF FloatGt(src_aspect, target_aspect)
    THEN <<target_width, FloatToInt(IntDivFloat(target_width, src_aspect))>>
    ELSE <<FloatToInt(IntMulFloat(target_height, src_aspect)), target_height>>

CalculateDimensions(src_width, src_height, target_width, target_height, maintain_aspect) ==
    IF ~maintain_aspect THEN <<target_width, target_height>>
    ELSE FitToBox(TrueDiv(src_width, src_height),
                  TrueDiv(target_width, target_height),
                  target_width, target_height)

\* ------------------------------------------------------------------------
\* Python str: a sequence of one-character strings
\* ------------------------------------------------------------------------
LowerLetters == <<"a", "b", "c", "d", "e", "f", "g", "h", "i", "j", "k", "l", "m", "n", "o", "p", "q", "r", "s", "t", "u", "v", "w", "x", "y", "z">>

UpperLetters == <<"A", "B", "C", "D", "E", "F", "G", "H", "I", "J", "K", "L", "M", "N", "O", "P", "Q", "R", "S", "T", "U", "V", "W", "X", "Y", "Z">>

LowerChar(c) ==
    IF \E i \in 1..26 : UpperLetters[i] = c
    THEN LowerLetters[CHOOSE i \in 1..26 : UpperLetters[i] = c]
    ELSE c

UpperChar(c) ==
    IF \E i \in 1..26 : LowerLetters[i] = c
    THEN UpperLetters[CHOOSE i \in 1..26 : LowerLetters[i] = c]
    ELSE c

StrLower(s) == [i \in 1..Len(s) |-> LowerChar(s[i])]

StrUpper(s) == [i \in 1..Len(s) |-> UpperChar(s[i])]

\* needle in hay
StrContains(hay, needle) ==
    \E i \in 0..(Len(hay) - Len(needle)) :
        SubSeq(hay, i + 1, i + Len(needle)) = needle

\* sep.join(parts)
RECURSIVE StrJoin(_, _)
StrJoin(sep, parts) ==
    IF parts = <<>> THEN <<>>
    ELSE IF Len(parts) = 1 THEN parts[1]
    ELSE parts[1] \o sep \o StrJoin(sep, Tail(parts))

\* s.rfind(c) + 1: the last position of c in s, 0 when absent
LastIndexOf(s, c) ==
    IF \E i \in 1..Len(s) : s[i] = c
    THEN CHOOSE i \in 1..Len(s) :
             s[i] = c /\ \A j \in (i + 1)..Len(s) : s[j] # c
    ELSE 0

\* Path(p).suffix: the final component's last dot and what follows it, unless
\* that dot starts or ends the component
PathSuffix(p) ==
    LET name == SubSeq(p, LastIndexOf(p, "/") + 1, Len(p))
        i    == LastIndexOf(name, ".")
    IN  IF 1 < i /\ i < Len(name) THEN SubSeq(name, i, Len(name)) ELSE <<>>

\* os.path.join(a, b) for a relative b
OsPathJoin(a, b) ==
    IF a = <<>> \/ a[Len(a)] = "/" THEN a \o b ELSE a \o <<"/">> \o b

\* ------------------------------------------------------------------------
\* exceptions: the type, the message template and the values formatted in
\* ------------------------------------------------------------------------
NoError == [type |-> "None", fmt |-> "", args |-> <<>>]

Raise(type, fmt, args) == [type |-> type, fmt |-> fmt, args |-> args]

\* ------------------------------------------------------------------------
\* ImageCompressor: presets, construction
\* ------------------------------------------------------------------------
PRESETS == <<
    <<<<"4", "K">>, <<3840, 2160>> >>,
    <<<<"1", "4", "4", "0", "p">>, <<2560, 1440>> >>,
    <<<<"1", "0", "8", "0", "p">>, <<1920, 1080>> >>,
    <<<<"7", "2", "0", "p">>, <<1280, 720>> >>,
    <<<<"4", "8", "0", "p">>, <<854, 480>> >>,
    <<<<"3", "6", "0", "p">>, <<640, 360>> >> >>

\* cls.PRESETS.keys(), in insertion order
PresetKeys == [i \in 1..Len(PRESETS) |-> PRESETS[i][1]]

\* preset in cls.PRESETS
PresetHas(preset) == \E i \in 1..Len(PRESETS) : PRESETS[i][1] = preset

\* cls.PRESETS[preset]
PresetGet(preset) ==
    PRESETS[CHOOSE i \in 1..Len(PRESETS) : PRESETS[i][1] = preset][2]

SourcePath == <<"c", "p", "u", "_", "u", "s", "a", "g", "e", "_", "r", "e", "p", "o", "r", "t", ".", "p", "n", "g">>

Max(a, b) == IF a >= b THEN a ELSE b

Min(a, b) == IF a <= b THEN a ELSE b

\* a clamp from above only
ClampQualityAbove(quality) == Min(100, quality)

ClampQuality(quality) == Max(1, Min(100, quality))

\* a constructor that does not look for the source file
ConstructUnchecked(pil, src_exists, target_width, target_height, quality) ==
    IF ~pil
    THEN [err |-> Raise("ImportError",
                     "PIL/Pillow is required. Install with: uv pip install Pillow",
                     <<>>),
          obj |-> <<>>]
    ELSE [err |-> NoError,
          obj |-> <<[source_path   |-> SourcePath,
                     target_width  |-> target_width,
                     target_height |-> target_height,
                     quality       |-> ClampQuality(quality)]>>]

\* ImageCompressor(source_path, target_width, target_height, quality):
\* the exception raised and the object constructed (<<>> when none is)
Construct(pil, src_exists, target_width, target_height, quality) ==
    IF ~pil
    THEN [err |-> Raise("ImportError",
                     "PIL/Pillow is required. Install with: uv pip install Pillow",
                     <<>>),
          obj |-> <<>>]
    ELSE IF ~src_exists
    THEN [err |-> Raise("FileNotFoundError", "Image not found: {}",
                        <<SourcePath>>),
          obj |-> <<>>]
    ELSE [err |-> NoError,
          obj |-> <<[source_path   |-> SourcePath,
                     target_width  |-> target_width,
                     target_height |-> target_height,
                     quality       |-> ClampQuality(quality)]>>]

\* a from_preset that takes an unknown name for 1080p
FromPresetLenient(pil, src_exists, preset, quality) ==
    IF ~PresetHas(preset)
    THEN Construct(pil, src_exists, 1920, 1080, quality)
    ELSE Construct(pil, src_exists, PresetGet(preset)[1],
                   PresetGet(preset)[2], quality)

\* ImageCompressor.from_preset(source_path, preset, quality)
FromPreset(pil, src_exists, preset, quality) ==
    IF ~PresetHas(preset)
    THEN [err |-> Raise("ValueError", "Unknown preset '{}'. Available: {}",
                        <<preset, StrJoin(<<",", " ">>, PresetKeys)>>),
          obj |-> <<>>]
    ELSE Construct(pil, src_exists, PresetGet(preset)[1],
                   PresetGet(preset)[2], quality)

\* ------------------------------------------------------------------------
\* Pillow, as far as compress depends on it
\* ------------------------------------------------------------------------
\* Image.open(path) on a path that is not there
OpenError(path) ==
    Raise("FileNotFoundError", "[Errno 2] No such file or directory: '{}'",
          <<path>>)

\* the format names Pillow has a writer registered under (Image.SAVE); the
\* JPEG writer is registered as JPEG alone
PillowFormats == {<<"B", "M", "P">>, <<"G", "I", "F">>, <<"J", "P", "E", "G">>, <<"P", "N", "G">>, <<"W", "E", "B", "P">>, <<"T", "I", "F", "F">>}

\* Image.resize(size, ...): the exception raised
PillowResize(size) ==
    IF size[1] < 1 \/ size[2] < 1
    THEN Raise("ValueError", "height and width must be > 0", <<>>)
    ELSE NoError

\* Image.save(path, format=format, ...) of an image of the given mode: the
\* exception raised.  Image.save looks the writer up by format.upper()
PillowSave(mode, format) ==
    IF StrUpper(format) \notin PillowFormats
    THEN Raise("KeyError", "{}", <<StrUpper(format)>>)
    ELSE IF StrUpper(format) = <<"J", "P", "E", "G">> /\ mode = "RGBA"
    THEN Raise("OSError", "cannot write mode RGBA as JPEG", <<>>)
    ELSE NoError

\* ------------------------------------------------------------------------
\* ImageCompressor._detect_format, compress, compress_batch; compress_image
\* ------------------------------------------------------------------------
FormatMap == <<
    <<<<".", "j", "p", "g">>, <<"J", "P", "E", "G">>>>,
    <<<<".", "j", "p", "e", "g">>, <<"J", "P", "E", "G">>>>,
    <<<<".", "p", "n", "g">>, <<"P", "N", "G">>>>,
    <<<<".", "w", "e", "b", "p">>, <<"W", "E", "B", "P">>>>,
    <<<<".", "g", "i", "f">>, <<"G", "I", "F">>>>,
    <<<<".", "b", "m", "p">>, <<"B", "M", "P">>>> >>

\* _detect_format(file_path): the exception raised and the format returned
DetectFormat(file_path) ==
    LET ext == StrLower(PathSuffix(file_path))
    IN  IF \E i \in 1..Len(FormatMap) : FormatMap[i][1] = ext
        THEN [err    |-> NoError,
              format |-> FormatMap[CHOOSE i \in 1..Len(FormatMap) :
                                       FormatMap[i][1] = ext][2]]
        ELSE [err    |-> Raise("ValueError",
                               "Unsupported format: {}. Supported: {}",
                               <<ext, StrJoin(<<",", " ">>,
                                   [i \in 1..Len(FormatMap) |-> FormatMap[i][1]])>>),
              format |-> <<>>]

\* an Optional[str] argument is <<>> for None and <<s>> for the string s;
\* `format or ...` takes the left side unless it is None or the empty string
Truthy(format) == format # <<>> /\ format[1] # <<>>

\* the condition of compress's RGBA branch
NeedsFlatten(mode, format, output_path) ==
    mode = "RGBA"
        /\ (format = <<<<"J", "P", "E", "G">>>> \/ StrContains(StrLower(output_path), <<"j", "p", "e", "g">>))

\* the keyword arguments compress hands to Image.save
SaveKwargs(output_format, quality) ==
    IF StrUpper(output_format) \in {<<"J", "P", "E", "G">>, <<"J", "P", "G">>}
    THEN [optimize |-> TRUE, quality |-> quality]
    ELSE [optimize |-> TRUE]

\* A call of compress is followed in a record: its arguments, how far it
\* got (opened, flattened, size, detected, output_format, save_kwargs,
\* written), the exception it raised and the dict it returned.  The dict's
\* size fields (megabytes on disk, their ratio) are left out: the encoder's
\* byte counts are not modelled.
NewRun(self, img, output_path, maintain_aspect, format) ==
    [output_path |-> output_path, format |-> format,
     maintain_aspect |-> maintain_aspect, quality |-> self.quality,
     source |-> <<img.width, img.height>>, mode |-> img.mode,
     err |-> NoError, opened |-> FALSE, flattened |-> FALSE, size |-> <<>>,
     detected |-> FALSE, output_format |-> <<>>, save_kwargs |-> <<>>,
     written |-> FALSE, result |-> <<>>]

\* resized.save(...) and the dict returned
SaveStep(run) ==
    IF PillowSave(run.mode, run.output_format[1]) # NoError
    THEN [run EXCEPT !.err = PillowSave(run.mode, run.output_format[1])]
    ELSE [run EXCEPT
             !.written = TRUE,
             !.result = <<[source_resolution |-> run.source,
                           target_resolution |-> run.size,
                           output_path       |-> run.output_path,
                           output_format     |-> run.output_format[1]]>>]

\* output_format = format or self._detect_format(output_path), save_kwargs
ResolveStep(run, detect) ==
    IF Truthy(run.format)
    THEN SaveStep([run EXCEPT
             !.output_format = <<run.format[1]>>,
             !.save_kwargs = <<SaveKwargs(run.format[1], run.quality)>>])
    ELSE IF detect.err # NoError
    THEN [run EXCEPT !.err = detect.err, !.detected = TRUE]
    ELSE SaveStep([run EXCEPT
             !.detected = TRUE,
             !.output_format = <<detect.format>>,
             !.save_kwargs = <<SaveKwargs(detect.format, run.quality)>>])

\* img.resize((new_width, new_height), LANCZOS)
ResizeStep(run) ==
    IF PillowResize(run.size) # NoError
    THEN [run EXCEPT !.err = PillowResize(run.size)]
    ELSE ResolveStep(run, DetectFormat(run.output_path))

\* self.compress(output_path, maintain_aspect, format) on the image img when
\* the source file is there or not
Compress(self, src_exists, img, output_path, maintain_aspect, format) ==
    IF ~src_exists
    THEN [NewRun(self, img, output_path, maintain_aspect, format)
             EXCEPT !.err = OpenError(self.source_path)]
    ELSE ResizeStep(
             [NewRun(self, img, output_path, maintain_aspect, format) EXCEPT
                 !.opened = TRUE,
                 !.flattened = NeedsFlatten(img.mode, format, output_path),
                 !.mode = IF NeedsFlatten(img.mode, format, output_path)
                          THEN "RGB" ELSE img.mode,
                 !.size = CalculateDimensions(img.width, img.height,
                              self.target_width, self.target_height,
                              maintain_aspect)])

\* what a call did: the exception it raised, the compressor it constructed,
\* its calls of compress and the dicts it returned
Outcome(err, made, runs, results) ==
    [err |-> err, made |-> made, runs |-> runs, results |-> results]

BatchPresets == <<<<"1", "0", "8", "0", "p">>, <<"7", "2", "0", "p">>, <<"4", "8", "0", "p">>>>

\* f"image_{preset_name}.{output_format}" under output_dir
BatchFile(output_dir, preset_name, output_format) ==
    OsPathJoin(output_dir, <<"i", "m", "a", "g", "e", "_">> \o preset_name \o <<".">> \o output_format)

\* the loop of compress_batch from preset i on, a being the arguments and
\* environment of the call and runs the compress calls made so far
RECURSIVE BatchLoop(_, _, _)
RECURSIVE BatchCompress(_, _, _, _)
RECURSIVE BatchAppend(_, _, _, _)
BatchLoop(a, i, runs) ==
    IF i > Len(BatchPresets)
    THEN Outcome(NoError, <<>>, runs,
                 [k \in 1..Len(runs) |-> runs[k].result[1]])
    ELSE BatchCompress(a, i, runs,
             FromPreset(a.pil, a.src_exists, BatchPresets[i], a.self.quality))

BatchCompress(a, i, runs, made) ==
    IF made.err # NoError THEN Outcome(made.err, <<>>, runs, <<>>)
    ELSE BatchAppend(a, i, runs,
             Compress(made.obj[1], a.src_exists, a.img,
                 BatchFile(a.output_dir, BatchPresets[i], a.output_format),
                 a.maintain_aspect, <<StrUpper(a.output_format)>>))

BatchAppend(a, i, runs, run) ==
    IF run.err # NoError THEN Outcome(run.err, <<>>, Append(runs, run), <<>>)
    ELSE BatchLoop(a, i + 1, Append(runs, run))

\* self.compress_batch(output_dir, output_format, maintain_aspect)
CompressBatch(self, pil, src_exists, img, output_dir, output_format, maintain_aspect) ==
    BatchLoop([self |-> self, pil |-> pil, src_exists |-> src_exists,
               img |-> img, output_dir |-> output_dir,
               output_format |-> output_format,
               maintain_aspect |-> maintain_aspect], 1, <<>>)

\* compressor.compress(output, maintain_aspect) of compress_image
CompressMade(made, src_exists, img, output, maintain_aspect) ==
    IF made.err # NoError THEN Outcome(made.err, <<>>, <<>>, <<>>)
    ELSE Outcome(NoError, made.obj,
             <<Compress(made.obj[1], src_exists, img, output,
                        maintain_aspect, <<>>)>>, <<>>)

\* the exception and the result of the one call of compress made
OfRun(out) ==
    IF out.runs = <<>> THEN out
    ELSE Outcome(out.runs[1].err, out.made, out.runs, out.runs[1].result)

\* compress_image(source, output, target_resolution, quality, maintain_aspect)
CompressImage(pil, src_exists, img, output, target_resolution, quality, maintain_aspect) ==
    OfRun(CompressMade(FromPreset(pil, src_exists, target_resolution, quality),
                       src_exists, img, output, maintain_aspect))

\* ------------------------------------------------------------------------
\* data_generator.generate_fake_data
\* ------------------------------------------------------------------------
Abs(x) == IF x < 0 THEN 0 - x ELSE x

\* ndarray.clip(lo, hi), elementwise
Clip(x, lo, hi) == IF x < lo THEN lo ELSE IF x > hi THEN hi ELSE x

\* the absolute value without the clip
UsageUnclipped(sample) == Abs(sample)

\* np.abs(sample).clip(0, 100), elementwise
Usage(sample) == Clip(Abs(sample), 0, 100)

\* a guard that lets zero through
TooFewBelowZero(n) == n < 0

\* n < 1, the guard of generate_fake_data
TooFew(n) == n < 1

\* pd.date_range("2025-01-01", periods=n, freq="h"): instants counted in
\* hours after 2025-01-01 00:00
DateRange(n) == [i \in 1..n |-> i - 1]

\* generate_fake_data(n) when np.random.normal returns cpu, ram, disk and
\* net (arrays of length n): the exception raised, the timestamps and draws
\* made, and the table returned
GenerateFakeData(n, cpu, ram, disk, net) ==
    IF TooFew(n)
    THEN [err |-> Raise("ValueError", "n must be at least 1, got {}", <<n>>),
          timestamps |-> <<>>, draws |-> <<>>, table |-> <<>>]
    ELSE [err |-> NoError,
          timestamps |-> DateRange(n),
          draws |-> <<cpu, ram, disk, net>>,
          table |-> [i \in 1..n |->
                        [timestamp     |-> DateRange(n)[i],
                         cpu_usage     |-> Usage(cpu[i]),
                         ram_usage     |-> Usage(ram[i]),
                         disk_usage    |-> Usage(disk[i]),
                         network_usage |-> Usage(net[i])]]]

\* ------------------------------------------------------------------------
\* chart_generator.SystemMetricsChart
\* ------------------------------------------------------------------------
\* A dict is the sequence of its <<key, value>> pairs in insertion order.
DictHas(d, k) == \E i \in 1..Len(d) : d[i][1] = k

DictGet(d, k) == d[CHOOSE i \in 1..Len(d) : d[i][1] = k][2]

DictKeys(d) == [i \in 1..Len(d) |-> d[i][1]]

\* an assignment that always adds a pair, whether or not the key is there
DictSetAppend(d, k, v) == Append(d, <<k, v>>)

\* d[k] = v: the value replaced in place when the key is there, the pair
\* added at the end when it is not
DictSet(d, k, v) ==
    IF DictHas(d, k)
    THEN [i \in 1..Len(d) |-> IF d[i][1] = k THEN <<k, v>> ELSE d[i]]
    ELSE Append(d, <<k, v>>)

\* A DataFrame is [columns |-> the column names, rows |-> the rows], a row
\* being a record over the columns.  The frame of a generated table:
FrameOf(table) ==
    [columns |-> <<"timestamp", "cpu_usage", "ram_usage", "disk_usage",
                   "network_usage">>,
     rows |-> table]

\* col in data.columns
HasColumn(data, col) == \E i \in 1..Len(data.columns) : data.columns[i] = col

\* data.empty: an axis of length 0
DataEmpty(data) == Len(data.rows) = 0 \/ Len(data.columns) = 0

DefaultMetrics == <<
    <<"CPU", [col |-> "cpu_usage", color |-> "#1f77b4"]>>,
    <<"RAM", [col |-> "ram_usage", color |-> "#2ca02c"]>>,
    <<"Disk", [col |-> "disk_usage", color |-> "#ff7f0e"]>>,
    <<"Network", [col |-> "network_usage", color |-> "#d62728"]>> >>

\* metrics or {...}: the argument is <<>> for None and <<dict>> for a dict,
\* and an empty dict counts as none given
MetricsOrDefault(metrics) ==
    IF metrics # <<>> /\ metrics[1] # <<>> THEN metrics[1] ELSE DefaultMetrics

\* the first metric whose column the data lack, 0 when there is none
FirstMissing(data, m) ==
    IF \E i \in 1..Len(m) : ~HasColumn(data, m[i][2].col)
    THEN CHOOSE i \in 1..Len(m) :
             /\ ~HasColumn(data, m[i][2].col)
             /\ \A j \in 1..(i - 1) : HasColumn(data, m[j][2].col)
    ELSE 0

\* the validation loop of __init__ over the metrics m
ValidateMetrics(data, m, missing) ==
    IF missing # 0
    THEN [err |-> Raise("KeyError", "Column '{}' not found for metric '{}'",
                        <<m[missing][2].col, m[missing][1]>>),
          obj |-> <<>>]
    ELSE [err |-> NoError,
          obj |-> <<[data |-> data, metrics |-> m, stats |-> <<>>]>>]

\* SystemMetricsChart(data, metrics): the exception raised and the object
\* constructed (<<>> when none is)
ChartInit(data, metrics) ==
    IF DataEmpty(data)
    THEN [err |-> Raise("ValueError", "Data cannot be empty", <<>>),
          obj |-> <<>>]
    ELSE IF ~HasColumn(data, "timestamp")
    THEN [err |-> Raise("ValueError", "Data must contain 'timestamp' column",
                        <<>>),
          obj |-> <<>>]
    ELSE ValidateMetrics(data, MetricsOrDefault(metrics),
                         FirstMissing(data, MetricsOrDefault(metrics)))

\* the sum of rows lo..hi of a column, by halves
RECURSIVE ColumnSum(_, _, _, _)
ColumnSum(rows, col, lo, hi) ==
    IF lo > hi THEN 0
    ELSE IF lo = hi THEN rows[lo][col]
    ELSE ColumnSum(rows, col, lo, (lo + hi) \div 2)
             + ColumnSum(rows, col, (lo + hi) \div 2 + 1, hi)

\* Series.max(), Series.min()
ColumnMax(rows, col) ==
    CHOOSE v \in {rows[i][col] : i \in 1..Len(rows)} :
        \A i \in 1..Len(rows) : rows[i][col] <= v

ColumnMin(rows, col) ==
    CHOOSE v \in {rows[i][col] : i \in 1..Len(rows)} :
        \A i \in 1..Len(rows) : rows[i][col] >= v

\* the statistics _create_metric_chart stores; the mean is the quotient
\* sum / count, kept as that pair
MetricStats(data, metric_col, color) ==
    [mean  |-> <<ColumnSum(data.rows, metric_col, 1, Len(data.rows)),
                 Len(data.rows)>>,
     max   |-> ColumnMax(data.rows, metric_col),
     min   |-> ColumnMin(data.rows, metric_col),
     color |-> color]

\* self._create_metric_chart(metric_name, metric_col, color): the exception
\* raised and self.stats afterwards
CreateMetricChart(data, stats, metric_name, metric_col, color) ==
    IF ~HasColumn(data, metric_col)
    THEN [err   |-> Raise("KeyError", "Column '{}' not found in data",
                          <<metric_col>>),
          stats |-> stats]
    ELSE [err   |-> NoError,
          stats |-> DictSet(stats, metric_name,
                            MetricStats(data, metric_col, color))]

\* the four charts the grid of create_full_report looks up, in that order
GridNames == <<"CPU", "RAM", "Disk", "Network">>

\* charts['CPU'] ... charts['Network'] over the charts made: the exception
\* raised and the grid laid out
LayOutGrid(metrics, stats) ==
    IF \E i \in 1..Len(GridNames) : ~DictHas(metrics, GridNames[i])
    THEN [err   |-> Raise("KeyError", "{}",
                      <<GridNames[CHOOSE i \in 1..Len(GridNames) :
                            /\ ~DictHas(metrics, GridNames[i])
                            /\ \A j \in 1..(i - 1) :
                                   DictHas(metrics, GridNames[j])]>>),
          stats |-> stats, chart |-> <<>>]
    ELSE [err |-> NoError, stats |-> stats, chart |-> <<GridNames>>]

\* the loop of create_full_report from metric i on
RECURSIVE ChartLoop(_, _, _)
RECURSIVE ChartStep(_, _, _)
ChartLoop(self, i, stats) ==
    IF i > Len(self.metrics) THEN LayOutGrid(self.metrics, stats)
    ELSE ChartStep(self, i,
             CreateMetricChart(self.data, stats, self.metrics[i][1],
                 self.metrics[i][2].col, self.metrics[i][2].color))

ChartStep(self, i, made) ==
    IF made.err # NoError
    THEN [err |-> made.err, stats |-> made.stats, chart |-> <<>>]
    ELSE ChartLoop(self, i + 1, made.stats)

\* self.create_full_report(): the exception raised, self.stats afterwards
\* and the chart returned
CreateFullReport(self) == ChartLoop(self, 1, self.stats)

\* the lines print_statistics prints: the heading, then one line per entry
\* of self.stats with the values formatted in
StatisticsLines(stats) ==
    <<[text |-> "Statistics:", args |-> <<>>]>>
        \o [i \in 1..Len(stats) |->
               [text |-> "{} - Mean: {}%, Max: {}%, Min: {}%",
                args |-> <<stats[i][1], stats[i][2].mean, stats[i][2].max,
                           stats[i][2].min>>]]

\* a handler that catches OSError alone
IsExceptionOsOnly(type) == type = "OSError"

\* except Exception: the exception types it catches
IsException(type) ==
    type \in {"OSError", "ValueError", "KeyError", "ImportError",
              "FileNotFoundError", "RuntimeError"}

\* A call of save_report is followed in a record: the exception it raised,
\* self.stats afterwards, the exports attempted in order, the files on disk
\* afterwards and the lines printed.
SaveOutcome(err, stats, attempts, files, printed) ==
    [err |-> err, stats |-> stats, attempts |-> attempts, files |-> files,
     printed |-> printed]

\* the PNG export and its handler
SavePng(stats, files, printed, png_path, png_err) ==
    IF png_err = NoError
    THEN SaveOutcome(NoError, stats, <<"html", "png">>, files \cup {png_path},
             Append(printed, [text |-> "Saved PNG: {}", args |-> <<png_path>>]))
    ELSE IF IsException(png_err.type)
    THEN SaveOutcome(NoError, stats, <<"html", "png">>, files,
             Append(printed, [text |-> "PNG export failed: {}",
                              args |-> <<png_err.fmt>>]))
    ELSE SaveOutcome(png_err, stats, <<"html", "png">>, files, printed)

\* the HTML export and what follows it
SaveHtml(made, files, html_path, png_path, html_err, png_err) ==
    IF made.err # NoError
    THEN SaveOutcome(made.err, made.stats, <<>>, files, <<>>)
    ELSE IF html_err # NoError
    THEN SaveOutcome(html_err, made.stats, <<"html">>, files, <<>>)
    ELSE SavePng(made.stats, files \cup {html_path},
                 <<[text |-> "Saved HTML: {}", args |-> <<html_path>>]>>,
                 png_path, png_err)

\* self.save_report(html_path, png_path) when the files on disk are files
\* and the two exports raise html_err and png_err (NoError: none)
SaveReport(self, files, html_path, png_path, html_err, png_err) ==
    SaveHtml(CreateFullReport(self), files, html_path, png_path, html_err,
             png_err)

\* ------------------------------------------------------------------------
\* state
\* ------------------------------------------------------------------------
VARIABLES
    pillow,      \* Pillow could be imported (Image is not None)
    exists,      \* the source file is on disk
    image,       \* what the source file holds: [width, height, mode]
    compressor,  \* the ImageCompressor the caller holds: <<>> or <<object>>
    call,        \* the last call made and what it did
    dims,        \* _calculate_dimensions alone: its arguments and result
    gen,         \* generate_fake_data: its argument and outcome
    report       \* the SystemMetricsChart the caller holds, the files on
                 \* disk and the last call made on it

vars == <<pillow, exists, image, compressor, call, dims, gen, report>>

\* ------------------------------------------------------------------------
\* bounds and the inputs enumerated
\* ------------------------------------------------------------------------
MaxSrc == 8

MaxTarget == 3

MaxN == 2

SrcSizes == (1..MaxSrc) \cup {49, 1000, 1400, 2000, 2160, 3840, 4000, 10000}

TargetBoxes ==
    {PRESETS[i][2] : i \in 1..Len(PRESETS)}
        \cup ((1..MaxTarget) \X (1..MaxTarget)) \cup {<<49, 49>>}

Samples == {-130, 30}

Images ==
    {[width |-> 4000, height |-> 2000, mode |-> "RGB"],
     [width |-> 4000, height |-> 2000, mode |-> "RGBA"],
     [width |-> 10000, height |-> 1, mode |-> "RGB"]}

Qualities == {0, 85, 101}

PresetNames == {PRESETS[i][1] : i \in 1..Len(PRESETS)}
                   \cup {<<"8", "K">>, <<"1", "0", "8", "0", "P">>, <<"4", "k">>}

UsedPresets == {<<"1", "0", "8", "0", "p">>, <<"8", "K">>}

ExplicitBoxes == {<<800, 600>>}

OutputPaths == {<<"a", ".", "j", "p", "g">>, <<"a", ".", "j", "p", "e", "g">>, <<"j", "p", "e", "g", "/", "a", ".", "p", "n", "g">>, <<"a", ".", "P", "N", "G">>, <<"a", ".", "x", "y", "z">>, <<"a">>}

Formats == {<<>>, <<(<<>>)>>, <<<<"J", "P", "E", "G">>>>, <<<<"j", "p", "e", "g">>>>, <<<<"J", "P", "G">>>>, <<<<"P", "N", "G">>>>}

BatchFormats == {<<"j", "p", "g">>, <<"j", "p", "e", "g">>, <<"p", "n", "g">>}

OutputDirs == {<<"o", "u", "t">>}

NoCall == [op |-> "none", args |-> <<>>, existed |-> FALSE, err |-> NoError,
           made |-> <<>>, runs |-> <<>>, results |-> <<>>]

NoDims == [src_width |-> 1, src_height |-> 1, target_width |-> 1,
           target_height |-> 1, maintain_aspect |-> FALSE, out |-> <<>>]

\* no chart held, no file written, no call made; ran and done tell whether
\* create_full_report or save_report has run, and has completed, on the
\* chart held
NoChartCall == [op |-> "none", err |-> NoError, attempts |-> <<>>,
                printed |-> <<>>]

NoReport == [chart |-> <<>>, ran |-> FALSE, done |-> FALSE, files |-> {},
             call |-> NoChartCall]

NoGen == [n |-> 0, done |-> FALSE, err |-> NoError, timestamps |-> <<>>,
          draws |-> <<>>, table |-> <<>>]

\* ------------------------------------------------------------------------
\* the image compressor
\* ------------------------------------------------------------------------
Init ==
    /\ pillow \in BOOLEAN
    /\ exists \in BOOLEAN
    /\ image \in Images
    /\ compressor = <<>>
    /\ call = NoCall
    /\ dims = NoDims
    /\ gen = NoGen
    /\ report = NoReport

\* the record of a call, with whether the source file was there when made
Called(op, args, out) ==
    [op |-> op, args |-> args, existed |-> exists, err |-> out.err,
     made |-> out.made, runs |-> out.runs, results |-> out.results]

Made(made) == Outcome(made.err, made.obj, <<>>, <<>>)

\* compressor = ImageCompressor(SourcePath, target_width, target_height, quality)
New(target_width, target_height, quality) ==
    /\ call' = Called("ImageCompressor",
                      [target_width |-> target_width,
                       target_height |-> target_height, quality |-> quality],
                      Made(Construct(pillow, exists, target_width,
                                     target_height, quality)))
    /\ compressor' = IF call'.err = NoError THEN call'.made ELSE compressor
    /\ UNCHANGED <<pillow, exists, image, dims, gen, report>>

\* compressor = ImageCompressor.from_preset(SourcePath, preset, quality)
NewFromPreset(preset, quality) ==
    /\ call' = Called("from_preset",
                      [preset |-> preset, quality |-> quality],
                      Made(FromPreset(pillow, exists, preset, quality)))
    /\ compressor' = IF call'.err = NoError THEN call'.made ELSE compressor
    /\ UNCHANGED <<pillow, exists, image, dims, gen, report>>

\* compressor.compress(output_path, maintain_aspect, format)
DoCompress(output_path, maintain_aspect, format) ==
    /\ compressor # <<>>
    /\ call' = Called("compress",
                      [output_path |-> output_path,
                       maintain_aspect |-> maintain_aspect, format |-> format],
                      OfRun(Outcome(NoError, <<>>,
                          <<Compress(compressor[1], exists, image, output_path,
                                     maintain_aspect, format)>>, <<>>)))
    /\ UNCHANGED <<pillow, exists, image, compressor, dims, gen, report>>

\* compressor.compress_batch(output_dir, output_format, maintain_aspect)
DoCompressBatch(output_dir, output_format, maintain_aspect) ==
    /\ compressor # <<>>
    /\ call' = Called("compress_batch",
                      [output_dir |-> output_dir,
                       output_format |-> output_format,
                       maintain_aspect |-> maintain_aspect],
                      CompressBatch(compressor[1], pillow, exists, image,
                          output_dir, output_format, maintain_aspect))
    /\ UNCHANGED <<pillow, exists, image, compressor, dims, gen, report>>

\* compress_image(SourcePath, output, target_resolution, quality, maintain_aspect)
DoCompressImage(output, target_resolution, quality, maintain_aspect) ==
    /\ call' = Called("compress_image",
                      [output |-> output,
                       target_resolution |-> target_resolution,
                       quality |-> quality,
                       maintain_aspect |-> maintain_aspect],
                      CompressImage(pillow, exists, image, output,
                          target_resolution, quality, maintain_aspect))
    /\ UNCHANGED <<pillow, exists, image, compressor, dims, gen, report>>

\* the source file is removed between two calls
Unlink ==
    /\ exists
    /\ exists' = FALSE
    /\ UNCHANGED <<pillow, image, compressor, call, dims, gen, report>>

\* the calls enumerated: every output path with every format, aspect kept,
\* and a few with the aspect not kept
CompressArgs ==
    (OutputPaths \X {TRUE} \X Formats)
        \cup ({<<"a", ".", "j", "p", "g">>} \X {FALSE} \X {<<>>, <<<<"J", "P", "E", "G">>>>})

ImageArgs ==
    (OutputPaths \X UsedPresets \X {85} \X {TRUE})
        \cup ({<<"a", ".", "j", "p", "g">>} \X {<<"1", "0", "8", "0", "p">>} \X Qualities \X {FALSE})

Next ==
    \/ \E box \in ExplicitBoxes : New(box[1], box[2], 85)
    \/ \E p \in UsedPresets, q \in Qualities : NewFromPreset(p, q)
    \/ \E a \in CompressArgs : DoCompress(a[1], a[2], a[3])
    \/ \E d \in OutputDirs, f \in BatchFormats, m \in BOOLEAN :
           DoCompressBatch(d, f, m)
    \/ \E a \in ImageArgs : DoCompressImage(a[1], a[2], a[3], a[4])
    \/ Unlink

Spec == Init /\ [][Next]_vars

\* ------------------------------------------------------------------------
\* construction on its own, over every preset name and quality
\* ------------------------------------------------------------------------
InitNew ==
    /\ pillow \in BOOLEAN
    /\ exists \in BOOLEAN
    /\ image = [width |-> 4000, height |-> 2000, mode |-> "RGB"]
    /\ compressor = <<>>
    /\ call = NoCall
    /\ dims = NoDims
    /\ gen = NoGen
    /\ report = NoReport

NextNew ==
    \/ \E box \in ExplicitBoxes, q \in Qualities : New(box[1], box[2], q)
    \/ \E p \in PresetNames, q \in Qualities : NewFromPreset(p, q)
    \/ \E p \in PresetNames : DoCompressImage(<<"a", ".", "j", "p", "g">>, p, 85, TRUE)
    \/ Unlink

SpecNew == InitNew /\ [][NextNew]_vars

\* ------------------------------------------------------------------------
\* _calculate_dimensions on its own
\* ------------------------------------------------------------------------
InitDims ==
    /\ dims \in [src_width : SrcSizes, src_height : SrcSizes,
                 target_width : {b[1] : b \in TargetBoxes},
                 target_height : {b[2] : b \in TargetBoxes},
                 maintain_aspect : BOOLEAN, out : {<<>>}]
    /\ <<dims.target_width, dims.target_height>> \in TargetBoxes
    /\ pillow = TRUE /\ exists = TRUE
    /\ image = [width |-> dims.src_width, height |-> dims.src_height,
                mode |-> "RGB"]
    /\ compressor = <<>> /\ call = NoCall /\ gen = NoGen
    /\ report = NoReport

Calculate ==
    /\ dims.out = <<>>
    /\ dims' = [dims EXCEPT !.out = CalculateDimensions(dims.src_width,
                    dims.src_height, dims.target_width, dims.target_height,
                    dims.maintain_aspect)]
    /\ UNCHANGED <<pillow, exists, image, compressor, call, gen, report>>

NextDims == Calculate

SpecDims == InitDims /\ [][NextDims]_vars

\* ------------------------------------------------------------------------
\* generate_fake_data on its own
\* ------------------------------------------------------------------------
InitGen ==
    /\ gen \in [n : (0 - MaxN)..MaxN, done : {FALSE}, err : {NoError},
                timestamps : {<<>>}, draws : {<<>>}, table : {<<>>}]
    /\ pillow = TRUE /\ exists = TRUE
    /\ image = [width |-> 1, height |-> 1, mode |-> "RGB"]
    /\ compressor = <<>> /\ call = NoCall /\ dims = NoDims
    /\ report = NoReport

\* the arrays np.random.normal(size=n) may return
Draws(n) == IF n < 1 THEN {<<>>} ELSE [1..n -> Samples]

Generate ==
    /\ ~gen.done
    /\ \E cpu \in Draws(gen.n), ram \in Draws(gen.n),
          disk \in Draws(gen.n), net \in Draws(gen.n) :
           LET out == GenerateFakeData(gen.n, cpu, ram, disk, net)
           IN  gen' = [n |-> gen.n, done |-> TRUE, err |-> out.err,
                       timestamps |-> out.timestamps, draws |-> out.draws,
                       table |-> out.table]
    /\ UNCHANGED <<pillow, exists, image, compressor, call, dims, report>>

NextGen == Generate

SpecGen == InitGen /\ [][NextGen]_vars

\* ------------------------------------------------------------------------
\* the chart generator, and main
\* ------------------------------------------------------------------------
MaxRows == 2

\* the rows main asks generate_fake_data for
MainRows == 200

\* the tables generate_fake_data returns for up to MaxRows rows (the four
\* arrays drawn alike), as frames
Generated ==
    {FrameOf(GenerateFakeData(n, d, d, d, d).table) :
         <<n, d>> \in UNION {{n} \X Draws(n) : n \in 1..MaxRows}}

\* a frame without one of its columns
WithoutColumn(data, col) ==
    [data EXCEPT !.columns = SelectSeq(data.columns, LAMBDA c : c # col)]

Frames ==
    Generated
        \cup {FrameOf(<<>>)}
        \cup {WithoutColumn(FrameOf(GenerateFakeData(1, <<30>>, <<30>>,
                                        <<30>>, <<30>>).table), col) :
                  col \in {"timestamp", "disk_usage"}}

Temperature == <<"Temp", [col |-> "cpu_usage", color |-> "#9467bd"]>>

MetricsArgs ==
    {<<>>, <<(<<>>)>>, <<(<<Temperature>>)>>,
     <<Append(DefaultMetrics, Temperature)>>,
     <<(<<(<<"GPU", [col |-> "gpu_usage", color |-> "#8c564b"]>>)>>)>>}

HtmlPath == "cpu_usage_report.html"

PngPath == "cpu_usage_report.png"

\* what an export may raise: nothing, or an error writing the file, or for
\* the PNG an error of the image converter
HtmlErrors ==
    {NoError, Raise("OSError", "[Errno 13] Permission denied", <<>>)}

PngErrors ==
    HtmlErrors \cup {Raise("ValueError", "Saving charts in 'png' format requires the vl-convert-python package", <<>>)}

InitReport ==
    /\ report = NoReport
    /\ pillow = TRUE /\ exists = TRUE
    /\ image = [width |-> 1, height |-> 1, mode |-> "RGB"]
    /\ compressor = <<>> /\ call = NoCall /\ dims = NoDims /\ gen = NoGen

\* the record of a call on the chart
ChartCalled(op, err, attempts, printed) ==
    [op |-> op, err |-> err, attempts |-> attempts, printed |-> printed]

\* chart_gen = SystemMetricsChart(data, metrics)
NewChartMade(made) ==
    /\ report' = IF made.err = NoError
                 THEN [report EXCEPT !.chart = made.obj, !.ran = FALSE,
                          !.done = FALSE,
                          !.call = ChartCalled("SystemMetricsChart", NoError,
                                               <<>>, <<>>)]
                 ELSE [report EXCEPT
                          !.call = ChartCalled("SystemMetricsChart", made.err,
                                               <<>>, <<>>)]
    /\ UNCHANGED <<pillow, exists, image, compressor, call, dims, gen>>

NewChart(data, metrics) == NewChartMade(ChartInit(data, metrics))

\* chart_gen.create_full_report()
CreateDone(out) ==
    /\ report' = [report EXCEPT
                     !.chart = <<[report.chart[1] EXCEPT !.stats = out.stats]>>,
                     !.ran = TRUE,
                     !.done = report.done \/ out.err = NoError,
                     !.call = ChartCalled("create_full_report", out.err,
                                          <<>>, <<>>)]
    /\ UNCHANGED <<pillow, exists, image, compressor, call, dims, gen>>

DoCreateFullReport ==
    /\ report.chart # <<>>
    /\ CreateDone(CreateFullReport(report.chart[1]))

\* chart_gen.save_report()
SaveDone(out) ==
    /\ report' = [report EXCEPT
                     !.chart = <<[report.chart[1] EXCEPT !.stats = out.stats]>>,
                     !.ran = TRUE,
                     !.done = report.done \/ out.err = NoError,
                     !.files = out.files,
                     !.call = ChartCalled("save_report", out.err,
                                          out.attempts, out.printed)]
    /\ UNCHANGED <<pillow, exists, image, compressor, call, dims, gen>>

DoSaveReport(html_err, png_err) ==
    /\ report.chart # <<>>
    /\ SaveDone(SaveReport(report.chart[1], report.files, HtmlPath, PngPath,
                           html_err, png_err))

\* chart_gen.print_statistics()
DoPrintStatistics ==
    /\ report.chart # <<>>
    /\ report' = [report EXCEPT
                     !.call = ChartCalled("print_statistics", NoError, <<>>,
                                  StatisticsLines(report.chart[1].stats))]
    /\ UNCHANGED <<pillow, exists, image, compressor, call, dims, gen>>

\* main(): the data generated, the chart constructed, the report saved and
\* the statistics printed, the chart being main's own
MainPrinted(made, out) ==
    /\ report' = [report EXCEPT
                     !.chart = <<[made.obj[1] EXCEPT !.stats = out.stats]>>,
                     !.ran = TRUE,
                     !.done = out.err = NoError,
                     !.files = out.files,
                     !.call = ChartCalled("main", out.err, out.attempts,
                                  IF out.err # NoError THEN out.printed
                                  ELSE out.printed
                                           \o StatisticsLines(out.stats))]
    /\ UNCHANGED <<pillow, exists, image, compressor, call, dims, gen>>

MainSaved(made, html_err, png_err) ==
    MainPrinted(made, SaveReport(made.obj[1], report.files, HtmlPath, PngPath,
                                 html_err, png_err))

Main(sample, html_err, png_err) ==
    MainSaved(ChartInit(FrameOf(GenerateFakeData(MainRows,
                            [i \in 1..MainRows |-> sample],
                            [i \in 1..MainRows |-> 30],
                            [i \in 1..MainRows |-> IF i = 1 THEN sample ELSE 30],
                            [i \in 1..MainRows |-> -130]).table), <<>>),
              html_err, png_err)

NextReport ==
    \/ \E data \in Frames, metrics \in MetricsArgs : NewChart(data, metrics)
    \/ DoCreateFullReport
    \/ \E h \in HtmlErrors, g \in PngErrors : DoSaveReport(h, g)
    \/ DoPrintStatistics
    \/ \E sample \in Samples, h \in HtmlErrors, g \in PngErrors :
           Main(sample, h, g)

SpecReport == InitReport /\ [][NextReport]_vars

\* ------------------------------------------------------------------------
\* properties of _calculate_dimensions (under SpecDims)
\* ------------------------------------------------------------------------
\* C1: with maintain_aspect=True the dimensions returned never exceed the
\* target box: w <= target_width and h <= target_height
C1_FitsInBox ==
    (dims.out # <<>> /\ dims.maintain_aspect)
        => /\ dims.out[1] <= dims.target_width
           /\ dims.out[2] <= dims.target_height

\* a 7x5 source fitted into the 1280x720 box, the width derived
C1_Fitted ==
    /\ dims.maintain_aspect
    /\ dims.src_width = 7 /\ dims.src_height = 5
    /\ dims.target_width = 1280 /\ dims.target_height = 720
    /\ dims.out # <<>> /\ dims.out[1] < 1280 /\ dims.out[2] = 720

\* C2: with maintain_aspect=True the kept side is the target's and the other
\* is the exact floor: height = floor(target_width * src_h / src_w) when the
\* source is strictly wider than the box, width = floor(target_height *
\* src_w / src_h) otherwise
C2_ExactFloor ==
    (dims.out # <<>> /\ dims.maintain_aspect)
        => dims.out =
               IF dims.src_width * dims.target_height
                      > dims.target_width * dims.src_height
               THEN <<dims.target_width,
                      (dims.target_width * dims.src_height) \div dims.src_width>>
               ELSE <<(dims.target_height * dims.src_width) \div dims.src_height,
                      dims.target_height>>

\* ------------------------------------------------------------------------
\* properties of generate_fake_data (under SpecGen)
\* ------------------------------------------------------------------------
\* C3: for n >= 1 the table has exactly n rows, row i stamped i - 1 hours
\* after 2025-01-01 00:00 (so strictly increasing, one hour apart), and every
\* usage value lies in [0, 100]
C3_RowsHourlyInRange ==
    (gen.done /\ gen.n >= 1)
        => /\ gen.err = NoError
           /\ Len(gen.table) = gen.n
           /\ gen.table[1].timestamp = 0
           /\ \A i \in 1..(gen.n - 1) :
                  gen.table[i + 1].timestamp = gen.table[i].timestamp + 1
           /\ \A i \in 1..gen.n :
                  /\ gen.table[i].cpu_usage \in 0..100
                  /\ gen.table[i].ram_usage \in 0..100
                  /\ gen.table[i].disk_usage \in 0..100
                  /\ gen.table[i].network_usage \in 0..100

\* two rows, a draw of -130 clipped to 100 and a draw of 30 kept
C3_TwoRows ==
    /\ gen.done /\ gen.n = 2
    /\ Len(gen.table) = 2
    /\ gen.draws[1][1] = -130 /\ gen.table[1].cpu_usage = 100
    /\ gen.draws[2][2] = 30 /\ gen.table[2].ram_usage = 30
    /\ gen.table[2].timestamp = 1

\* C4: for n = 0 and every negative n the call raises ValueError, and no
\* timestamp is made, no sample drawn and no table returned
C4_RejectsTooFew ==
    (gen.done /\ gen.n < 1)
        => /\ gen.err.type = "ValueError"
           /\ gen.timestamps = <<>>
           /\ gen.draws = <<>>
           /\ gen.table = <<>>

\* generate_fake_data(0) has raised
C4_ZeroRejected ==
    /\ gen.done /\ gen.n = 0
    /\ gen.err = Raise("ValueError", "n must be at least 1, got {}", <<0>>)

\* ------------------------------------------------------------------------
\* properties of the compressor
\* ------------------------------------------------------------------------
\* the preset table as the specification gives it
ValidPresets ==
    {<<<<"4", "K">>, <<3840, 2160>>>>, <<<<"1", "4", "4", "0", "p">>, <<2560, 1440>>>>,
     <<<<"1", "0", "8", "0", "p">>, <<1920, 1080>>>>, <<<<"7", "2", "0", "p">>, <<1280, 720>>>>,
     <<<<"4", "8", "0", "p">>, <<854, 480>>>>, <<<<"3", "6", "0", "p">>, <<640, 360>>>>}

ValidNames == {e[1] : e \in ValidPresets}

\* the preset name a call was given, <<>> when it takes none
PresetArg ==
    IF call.op = "from_preset" THEN <<call.args.preset>>
    ELSE IF call.op = "compress_image" THEN <<call.args.target_resolution>>
    ELSE <<>>

\* C5 (under SpecNew): from_preset and compress_image, given a name that is
\* not exactly one of the six, raise ValueError with a message naming all six
\* and construct no compressor; given one of the six, with Pillow and the
\* source there, they construct a compressor of the table's dimensions
C5_PresetTable ==
    PresetArg # <<>>
        => IF PresetArg[1] \notin ValidNames
           THEN /\ call.err.type = "ValueError"
                /\ call.err.fmt = "Unknown preset '{}'. Available: {}"
                /\ \A name \in ValidNames : StrContains(call.err.args[2], name)
                /\ call.made = <<>>
                /\ call.runs = <<>>
           ELSE (pillow /\ call.existed)
                    => /\ call.made # <<>>
                       /\ <<PresetArg[1], <<call.made[1].target_width,
                                            call.made[1].target_height>>>>
                              \in ValidPresets

\* from_preset was given 1080P, which differs from a valid name by case only
C5_WrongCase ==
    /\ call.op = "from_preset"
    /\ call.args.preset = <<"1", "0", "8", "0", "P">>
    /\ call.err.type = "ValueError"
    /\ call.made = <<>>

\* no call of compress the call made has written its output
NothingWritten ==
    /\ \A i \in 1..Len(call.runs) : ~call.runs[i].written
    /\ call.results = <<>>

C7_ThreeResults ==
    (call.op = "compress_batch" /\ call.existed)
        => /\ call.err = NoError
           /\ Len(call.results) = 3
           /\ \A i \in 1..3 :
                  /\ i <= Len(call.results)
                  /\ call.results[i].output_path =
                         call.args.output_dir \o <<"/">>
                             \o <<"i", "m", "a", "g", "e", "_">>
                             \o <<<<"1", "0", "8", "0", "p">>, <<"7", "2", "0", "p">>, <<"4", "8", "0", "p">>>>[i]
                             \o <<".">> \o call.args.output_format

\* the target of a call of compress is JPEG: by its explicit format, or
\* without one by the extension of its output path
JpegTarget(run) ==
    IF Truthy(run.format)
    THEN StrUpper(run.format[1]) \in {<<"J", "P", "E", "G">>, <<"J", "P", "G">>}
    ELSE StrLower(PathSuffix(run.output_path)) \in {<<".", "j", "p", "g">>, <<".", "j", "p", "e", "g">>}

\* C8 (under Spec): in every call of compress that opened the source, an
\* RGBA source is flattened when the target is JPEG, and nothing is
\* flattened when the target is not JPEG
C8_FlattenForJpeg ==
    \A i \in 1..Len(call.runs) :
        call.runs[i].opened
            => /\ (JpegTarget(call.runs[i]) /\ image.mode = "RGBA")
                      => call.runs[i].flattened
               /\ ~JpegTarget(call.runs[i]) => ~call.runs[i].flattened

\* the quality a constructor keeps of the one it is given
Clamped(quality) ==
    IF quality < 1 THEN 1 ELSE IF quality > 100 THEN 100 ELSE quality

\* the quality argument of the constructor behind a call's compress calls
ConstructedWith ==
    IF call.op = "compress_image" THEN Clamped(call.args.quality)
    ELSE compressor[1].quality

C10_UnsupportedExactly ==
    \A i \in 1..Len(call.runs) :
        call.runs[i].opened
            => /\ (/\ call.runs[i].err.type = "ValueError"
                   /\ call.runs[i].err.fmt
                          = "Unsupported format: {}. Supported: {}")
                      <=> (/\ ~Truthy(call.runs[i].format)
                           /\ StrLower(PathSuffix(call.runs[i].output_path))
                                  \notin {<<".", "j", "p", "g">>, <<".", "j", "p", "e", "g">>, <<".", "p", "n", "g">>, <<".", "w", "e", "b", "p">>,
                                          <<".", "g", "i", "f">>, <<".", "b", "m", "p">>})
               /\ call.runs[i].err # NoError => ~call.runs[i].written
               /\ Truthy(call.runs[i].format)
                      => /\ ~call.runs[i].detected
                         /\ call.runs[i].result # <<>>
                                => call.runs[i].result[1].output_format
                                       = call.runs[i].format[1]

\* C12 (under SpecDims): with maintain_aspect=True and positive source and
\* target dimensions, the width and the height returned are both at least 1
C12_AtLeastOne ==
    (dims.out # <<>> /\ dims.maintain_aspect)
        => dims.out[1] >= 1 /\ dims.out[2] >= 1

NamesListed(printed, i) ==
    [k \in 1..(Len(printed) - i + 1) |-> printed[k + i - 1].args[1]]

\* C13: the stats of a chart are empty until create_full_report or
\* save_report runs on it; once such a call has completed, whether or not
\* the PNG was exported, they hold exactly one entry (mean, max, min, color)
\* per configured metric, however often the call is repeated;
\* print_statistics lists the entries of stats, so every metric after a
\* completed report, as in main, and none before any report
C13_StatsPerMetric ==
    report.chart # <<>>
        => /\ ~report.ran => report.chart[1].stats = <<>>
           /\ report.done
                  => /\ Len(report.chart[1].stats) = Len(report.chart[1].metrics)
                     /\ \A i \in 1..Len(report.chart[1].metrics) :
                            /\ DictHas(report.chart[1].stats,
                                       report.chart[1].metrics[i][1])
                            /\ DictGet(report.chart[1].stats,
                                       report.chart[1].metrics[i][1]).color
                                   = report.chart[1].metrics[i][2].color
           /\ \A i \in 1..Len(report.chart[1].stats) :
                  DOMAIN report.chart[1].stats[i][2]
                      = {"mean", "max", "min", "color"}
           /\ report.call.op = "print_statistics"
                  => /\ report.call.printed[1].text = "Statistics:"
                     /\ NamesListed(report.call.printed, 2)
                            = DictKeys(report.chart[1].stats)
                     /\ report.done
                            => NamesListed(report.call.printed, 2)
                                   = DictKeys(report.chart[1].metrics)
                     /\ ~report.ran => Len(report.call.printed) = 1
           /\ (report.call.op = "main" /\ report.call.err = NoError)
                  => NamesListed(report.call.printed, 4)
                         = <<"CPU", "RAM", "Disk", "Network">>

\* print_statistics after a save_report whose PNG export failed has listed
\* the five metrics configured
C13_ListedAfterSave ==
    /\ report.call.op = "print_statistics"
    /\ report.done
    /\ report.files = {HtmlPath}
    /\ Len(report.chart[1].metrics) = 5
    /\ Len(report.call.printed) = 6

====
